---- MODULE Spec2Model ----
(***************************************************************************)
(* Meta-transformers of sktime/transformers/compose.py:                    *)
(*   Tabularizer, RowwiseTransformer, ColumnConcatenator and the two       *)
(*   methods ColumnTransformer adds to sklearn's column transformer.       *)
(*                                                                         *)
(* Every object is one group of variables; every method is one action     *)
(* that models the whole call, raised exceptions included: a call that    *)
(* raises leaves its result in the object's "out" variable as an error    *)
(* record.  The nested-data utilities (tabularize, detabularize,          *)
(* concat_nested_arrays, get_time_index, validate_X) are not part of      *)
(* compose.py; they are modelled from their contract.                     *)
(***************************************************************************)
EXTENDS Integers, Sequences, FiniteSets, TLC

\* Bounds of the input tables.
MaxRows == 2
MaxCols == 2
MaxLen == 3
\* Bound of the number of sub-transformer outputs handed to ColumnTransformer.
MaxSubs == 3

(***************************************************************************)
(* Data model.                                                             *)
(* A cell of a nested table is a pandas Series: its time index t and its   *)
(* values v.  A table is a record kind/index/columns/cells with            *)
(* cells[r][c] a cell (kind "nested") or a primitive (kind "tabular").     *)
(* Anything that is not a DataFrame is the one value Other.                *)
(***************************************************************************)
RECURSIVE Concat(_)
Concat(ss) == IF ss = <<>> THEN <<>> ELSE Head(ss) \o Concat(Tail(ss))

RECURSIVE SumSeq(_)
SumSeq(s) == IF s = <<>> THEN 0 ELSE Head(s) + SumSeq(Tail(s))

\* pandas' default labels: RangeIndex(n) = 0, 1, ..., n-1.
RangeIndex(n) == [k \in 1..n |-> k - 1]

Series(t, v) == [t |-> t, v |-> v]

Other == [kind |-> "other", index |-> <<>>, columns |-> <<>>, cells |-> <<>>]

NoVal == [kind |-> "none", index |-> <<>>, columns |-> <<>>, cells |-> <<>>]

\* A table some build of the external utilities returns for an input outside
\* their contract; nothing is known of its content.
Unspecified == [kind |-> "unspecified", index |-> <<>>, columns |-> <<>>, cells |-> <<>>]

\* The input tables: R rows, C columns, sequences of length L, labels shifted
\* by lab (lab = 0 gives pandas' default labels).  In a "uniform" table every
\* cell has length L; in a "mixed" one the columns after the first have
\* another length than the first; in a "ragged" one the last row's first cell
\* is one element longer than the cells above it.
LabelShifts == {0, 1}

CellLen(L, R, variant, r, c) ==
  IF variant = "mixed" /\ c > 1 THEN (L % MaxLen) + 1
  ELSE IF variant = "ragged" /\ r = R /\ c = 1 THEN L + 1
  ELSE L

CellVal(r, c, k) == 100 * (r - 1) + 10 * (c - 1) + k

MkNested(R, C, L, lab, variant) ==
  [kind |-> "nested",
   index |-> [r \in 1..R |-> 10 * lab + r - 1],
   columns |-> [c \in 1..C |-> 10 * lab + c - 1],
   cells |-> [r \in 1..R |-> [c \in 1..C |->
               Series([k \in 1..CellLen(L, R, variant, r, c) |-> 5 * lab + k - 1],
                      [k \in 1..CellLen(L, R, variant, r, c) |-> CellVal(r, c, k)])]]]

NestedFrames ==
  {MkNested(R, C, L, lab, "uniform") :
     R \in 1..MaxRows, C \in 1..MaxCols, L \in 1..MaxLen, lab \in LabelShifts}
  \cup {MkNested(R, C, L, lab, "mixed") :
     R \in 1..MaxRows, C \in 2..MaxCols, L \in 1..MaxLen, lab \in LabelShifts}
  \cup {MkNested(R, C, L, lab, "ragged") :
     R \in 2..MaxRows, C \in 1..MaxCols, L \in 1..MaxLen, lab \in LabelShifts}

NRows(X) == Len(X.cells)

NCols(X) == Len(X.columns)

IsRagged(X) ==
  \E c \in 1..NCols(X) : \E r1, r2 \in 1..NRows(X) :
    Len(X.cells[r1][c].v) # Len(X.cells[r2][c].v)

\* All cells of X carry the same time index.
CommonTimeIndex(X) ==
  \A r1, r2 \in 1..NRows(X) : \A c1, c2 \in 1..NCols(X) :
    X.cells[r1][c1].t = X.cells[r2][c2].t

RegularFrames == {X \in NestedFrames : ~IsRagged(X)}

(***************************************************************************)
(* Results of a call: what it returned, or the exception it raised.        *)
(***************************************************************************)
Ok(v) == [kind |-> "ok", val |-> v]

Raise(e) == [kind |-> e, val |-> NoVal]

NoCall == [kind |-> "none", val |-> NoVal]

(***************************************************************************)
(* The external nested-data utilities.                                     *)
(***************************************************************************)
\* validate_X: the input is a table (a DataFrame).
ValidateX(X) == X.kind \in {"nested", "tabular"}

\* get_time_index: the time index of the table's cells, read off its first cell.
GetTimeIndex(X) == X.cells[1][1].t

\* tabularize: one primitive column per time position of every column, in
\* column order.
Tabularize(X) ==
  [kind |-> "tabular",
   index |-> X.index,
   columns |-> Concat([c \in 1..NCols(X) |->
                 [k \in 1..Len(X.cells[1][c].v) |-> <<X.columns[c], k - 1>>]]),
   cells |-> [r \in 1..NRows(X) |-> Concat([c \in 1..NCols(X) |-> X.cells[r][c].v])]]

\* What a call of tabularize ends in: on a table whose columns have one
\* sequence length each it returns the flat table; on a ragged one there is no
\* rectangular flat table and the call raises or returns something unspecified.
TabularizeOutcomes(X) ==
  IF X.kind # "nested" THEN {Raise("Error")}
  ELSE IF IsRagged(X) THEN {Raise("Error"), Ok(Unspecified)}
  ELSE {Ok(Tabularize(X))}

Given(v) == [set |-> TRUE, val |-> v]

Absent == [set |-> FALSE, val |-> <<>>]

\* detabularize: every row's primitives become one sequence, in one column;
\* index and time_index, when given, label the rows and the positions and
\* must fit the table.
Detabularize(X, index, time_index) ==
  IF X.kind # "tabular" THEN Raise("Error")
  ELSE IF time_index.set /\ Len(time_index.val) # NCols(X) THEN Raise("Error")
  ELSE IF index.set /\ Len(index.val) # NRows(X) THEN Raise("Error")
  ELSE Ok([kind |-> "nested",
           index |-> IF index.set THEN index.val ELSE RangeIndex(NRows(X)),
           columns |-> <<0>>,
           cells |-> [r \in 1..NRows(X) |->
                       <<Series(IF time_index.set THEN time_index.val
                                ELSE RangeIndex(NCols(X)),
                                X.cells[r])>>]])

TabularFrames == {Tabularize(X) : X \in RegularFrames}

(***************************************************************************)
(* State: one group of variables per object.                               *)
(***************************************************************************)
\* Tabularizer: check_input, and the attributes _columns, _index and
\* _time_index, absent until transform sets them.  t_out is the result of
\* the last call; the rest is the history of the calls on the instance:
\*   t_op      the name of the last call;
\*   t_passed  the input of the latest transform call that passed validation;
\*   t_flow    after an inverse_transform call whose input was the table the
\*             call before it, a transform, returned: that transform's input;
\*   t_hist    whether a transform call has returned, whether one has raised,
\*             and how many passed validation (0, 1, or 2 for "several").
VARIABLES check_input, t_columns, t_index, t_time_index, t_out, t_op, t_passed,
          t_flow, t_hist

tvars == <<check_input, t_columns, t_index, t_time_index, t_out, t_op, t_passed,
           t_flow, t_hist>>

\* RowwiseTransformer:
\*   transformer    the wrapped per-row transformer (the function it computes);
\*   wrapped_state  the wrapped transformer's fitted state: the number of time
\*                  points of the sequence it was last fitted on, if any;
\*   r_is_fitted    the attribute is_fitted_;
\*   r_op, r_X      the last call on the instance and its input;
\*   r_out          the result of the last call;
\*   r_calls        the arguments of the fit_transform calls the last call made.
VARIABLES transformer, wrapped_state, r_is_fitted, r_out, r_op, r_X, r_calls

rvars == <<transformer, wrapped_state, r_is_fitted, r_out, r_op, r_X, r_calls>>

\* ColumnConcatenator: the attribute is_fitted_, and the last call, its input
\* and its result.
VARIABLES c_is_fitted, c_out, c_op, c_X

cvars == <<c_is_fitted, c_out, c_op, c_X>>

\* ColumnTransformer: preserve_dataframe, sparse_output_, the outputs Xs of
\* the fitted sub-transformers (each by its type), and the last call and its
\* result.
VARIABLES preserve_dataframe, sparse_output_, Xs, k_out, k_op

kvars == <<preserve_dataframe, sparse_output_, Xs, k_out, k_op>>

vars == <<tvars, rvars, cvars, kvars>>

(***************************************************************************)
(* Tabularizer                                                             *)
(***************************************************************************)
RecordedOnce(old, new) == IF old.set THEN old ELSE Given(new)

\* The attribute transform keeps of its input: after the assignment the
\* attribute holds the new value, whatever it held.
Recorded(old, new) == Given(new)

\* Tabularizer.transform raising before it records anything: validation, or
\* the read of X.columns on something that is no DataFrame.
TransformRejects(X) ==
  IF check_input /\ ~ValidateX(X) THEN Raise("ValueError")
  ELSE IF X.kind \notin {"nested", "tabular"} THEN Raise("AttributeError")
  ELSE NoCall

Transform(X) ==
  /\ t_op' = "transform"
  /\ t_passed' = IF ValidateX(X) THEN Given(X) ELSE t_passed
  /\ t_flow' = Absent
  /\ IF TransformRejects(X) # NoCall
     THEN /\ t_out' = TransformRejects(X)
          /\ UNCHANGED <<t_columns, t_index, t_time_index>>
     ELSE /\ t_columns' = Recorded(t_columns, X.columns)
          /\ t_index' = Recorded(t_index, X.index)
          /\ t_time_index' = Recorded(t_time_index, GetTimeIndex(X))
          /\ t_out' \in TabularizeOutcomes(X)
  /\ t_hist' = [done |-> t_hist.done \/ t_out'.kind = "ok",
                failed |-> t_hist.failed \/ t_out'.kind # "ok",
                passed |-> IF ~ValidateX(X) THEN t_hist.passed
                           ELSE IF t_hist.passed = 0 THEN 1 ELSE 2]
  /\ UNCHANGED check_input
  /\ UNCHANGED <<rvars, cvars, kvars>>

\* check_is_fitted_in_transform(self, '_time_index')
IsFittedInTransform == t_time_index.set

InverseArgsNoIndex == [index |-> Absent, time_index |-> t_time_index]

\* The arguments inverse_transform hands to detabularize.
InverseArgs == [index |-> t_index, time_index |-> t_time_index]

InverseResultNoFitCheck(X) ==
  IF check_input /\ ~ValidateX(X) THEN Raise("ValueError")
  ELSE Detabularize(X, Absent, Absent)

InverseResult(X) ==
  IF ~IsFittedInTransform THEN Raise("NotFittedError")
  ELSE IF check_input /\ ~ValidateX(X) THEN Raise("ValueError")
  ELSE Detabularize(X, InverseArgs.index, InverseArgs.time_index)

InverseTransform(X, flow) ==
  /\ t_op' = "inverse_transform"
  /\ t_flow' = flow
  /\ t_out' = InverseResult(X)
  /\ UNCHANGED <<check_input, t_columns, t_index, t_time_index, t_passed, t_hist>>
  /\ UNCHANGED <<rvars, cvars, kvars>>

\* The table the last call, a transform, returned.
Returned == t_op = "transform" /\ t_out.kind = "ok" /\ t_out.val.kind = "tabular"

TNext ==
  \/ \E X \in NestedFrames : Transform(X)
  \/ Transform(Other)
  \/ Returned /\ InverseTransform(t_out.val, t_passed)
  \/ \E X \in TabularFrames : InverseTransform(X, Absent)
  \/ InverseTransform(Other, Absent)

\* The last call was an inverse_transform of the table that a transform of
\* X, the call before it, returned.
RoundTrip == t_op = "inverse_transform" /\ t_flow.set

SameValues(X, Y) ==
  /\ NRows(Y) = NRows(X)
  /\ NCols(Y) = NCols(X)
  /\ \A r \in 1..NRows(X) : \A c \in 1..NCols(X) : Y.cells[r][c] = X.cells[r][c]

Reproduces(X, res) ==
  /\ res.kind = "ok"
  /\ res.val.kind = "nested"
  /\ res.val.index = X.index
  /\ SameValues(X, res.val)

\* C1 (as stated): for every nested table X whose rows share one common time
\* index, tables of several columns included, inverse_transform of
\* transform(X) on the same instance is a nested table with X's row index, X's
\* number of columns and X's cell sequences.
C1_RoundTripAnyWidth ==
  (RoundTrip /\ CommonTimeIndex(t_flow.val)) => Reproduces(t_flow.val, t_out)

\* C1 (amended): the round trip reproduces the row index, the single column
\* and the cell sequences of every single-column nested table whose rows share
\* one time index; for a table of several columns it returns no table with
\* that number of columns.
C1_RoundTripSingleColumn ==
  (RoundTrip /\ CommonTimeIndex(t_flow.val)) =>
    IF NCols(t_flow.val) = 1 THEN Reproduces(t_flow.val, t_out)
    ELSE ~(t_out.kind = "ok" /\ NCols(t_out.val) = NCols(t_flow.val))

\* A round trip of a single-column table of two rows with shifted labels.
C1_Witness ==
  /\ RoundTrip
  /\ CommonTimeIndex(t_flow.val)
  /\ NCols(t_flow.val) = 1
  /\ NRows(t_flow.val) = 2
  /\ t_flow.val.index # RangeIndex(2)
  /\ Len(t_flow.val.cells[1][1].v) > 1
  /\ t_out.kind = "ok"

\* C2 (as stated): inverse_transform raises NotFittedError in every state
\* reached without a transform call that returned, earlier transform calls
\* that raised included.
C2_NotFittedUntilTransformReturns ==
  (t_op = "inverse_transform" /\ ~t_hist.done) => t_out = Raise("NotFittedError")

\* C2 (amended): inverse_transform raises NotFittedError, and returns no
\* table, exactly when no earlier transform call was given a table: a
\* transform call that raised at validation or at the read of X.columns
\* leaves the instance unfitted, one that raised after it recorded the time
\* index leaves it fitted.
C2_NotFittedUntilRecorded ==
  t_op = "inverse_transform" =>
    IF t_hist.passed = 0 THEN t_out = Raise("NotFittedError")
    ELSE t_out.kind # "NotFittedError"

\* inverse_transform raising NotFittedError after a transform call that raised.
C2_Witness ==
  /\ t_op = "inverse_transform"
  /\ t_hist.failed
  /\ ~t_hist.done
  /\ t_out = Raise("NotFittedError")

Transformers == {"identity", "sum", "tail"}

\* The instance itself, as fit returns it.
Self == [kind |-> "self", index |-> <<>>, columns |-> <<>>, cells |-> <<>>]

\* pd.DataFrame(row): the sequence as a table of one column, one row per
\* time point.
DataFrame(row) ==
  [kind |-> "tabular",
   index |-> row.t,
   columns |-> <<0>>,
   cells |-> [k \in 1..Len(row.v) |-> <<row.v[k]>>]]

Column(frame) == Series(frame.index, [k \in 1..Len(frame.cells) |-> frame.cells[k][1]])

\* The wrapped transformer's fit_transform on a one-column table: the series
\* itself, its sum (a series-to-primitive transform), or the series without
\* its first element.
FitTransform(kind, frame) ==
  LET s == Column(frame) IN
  CASE kind = "identity" -> s
    [] kind = "sum" -> Series(<<0>>, <<SumSeq(s.v)>>)
    [] kind = "tail" -> IF Len(s.v) > 1 THEN Series(Tail(s.t), Tail(s.v)) ELSE s


FitMarksFirst(X) == TRUE

\* The fitted marker after fit(X): fit sets it once validate_X has returned.
FitMarks(X) == ValidateX(X)

RFit(X) ==
  /\ r_op' = "fit"
  /\ r_X' = X
  /\ r_calls' = <<>>
  /\ r_is_fitted' = (r_is_fitted \/ FitMarks(X))
  /\ r_out' = IF ValidateX(X) THEN Ok(Self) ELSE Raise("ValueError")
  /\ UNCHANGED <<transformer, wrapped_state>>
  /\ UNCHANGED <<tvars, cvars, kvars>>

TransformGuardFittedFirst(X) ==
  IF ~r_is_fitted THEN Raise("NotFittedError")
  ELSE IF ~ValidateX(X) THEN Raise("ValueError")
  ELSE NoCall

\* The checks RowwiseTransformer.transform starts with, in their order.
TransformGuard(X) ==
  IF ~ValidateX(X) THEN Raise("ValueError")
  ELSE IF ~r_is_fitted THEN Raise("NotFittedError")
  ELSE NoCall

\* The cell the loops visit in their i-th pass: column by column, and row by
\* row within a column.
Visited(X, i) == X.cells[((i - 1) % NRows(X)) + 1][((i - 1) \div NRows(X)) + 1]

\* The fit_transform calls of one transform, in their order.
Calls(X) == [i \in 1..(NRows(X) * NCols(X)) |-> DataFrame(Visited(X, i))]

\* cols_t: per column, the transformed rows, in the order of the calls.
ColsT(X) ==
  [c \in 1..NCols(X) |-> [r \in 1..NRows(X) |->
     FitTransform(transformer, DataFrame(Visited(X, (c - 1) * NRows(X) + r)))]]

\* concat_nested_arrays: the nested table whose column c holds cols_t[c].
ConcatNestedArrays(cols_t) ==
  [kind |-> "nested",
   index |-> RangeIndex(Len(cols_t[1])),
   columns |-> RangeIndex(Len(cols_t)),
   cells |-> [r \in 1..Len(cols_t[1]) |-> [c \in 1..Len(cols_t) |-> cols_t[c][r]]]]

\* The test that sends the result through tabularize.
Unnests(Xt) == Len(Xt.cells[1][1].v) = 1

RTransform(X) ==
  /\ r_op' = "transform"
  /\ r_X' = X
  /\ IF TransformGuard(X) # NoCall
     THEN /\ r_out' = TransformGuard(X)
          /\ r_calls' = <<>>
          /\ UNCHANGED wrapped_state
     ELSE /\ r_calls' = Calls(X)
          /\ wrapped_state' = Given(Len(Visited(X, NRows(X) * NCols(X)).v))
          /\ LET Xt == ConcatNestedArrays(ColsT(X)) IN
               IF Unnests(Xt) THEN r_out' \in TabularizeOutcomes(Xt)
               ELSE r_out' = Ok(Xt)
  /\ UNCHANGED <<transformer, r_is_fitted>>
  /\ UNCHANGED <<tvars, cvars, kvars>>

RNext ==
  \/ \E X \in NestedFrames : RFit(X)
  \/ RFit(Other)
  \/ \E X \in NestedFrames : RTransform(X)
  \/ RTransform(Other)

\* The output of the wrapped transformer for cell (r, c) of X.
RowResult(X, r, c) == FitTransform(transformer, DataFrame(X.cells[r][c]))

AllScalar(X) ==
  \A r \in 1..NRows(X) : \A c \in 1..NCols(X) : Len(RowResult(X, r, c).v) = 1

\* The last call was a transform of a table on a fitted instance.
Transformed == r_op = "transform" /\ r_is_fitted /\ r_X.kind = "nested"

\* Every cell of X was handed to fit_transform exactly once, as a one-column
\* table, and nothing else was.
OncePerCell(X, calls) ==
  /\ Len(calls) = NRows(X) * NCols(X)
  /\ \A r \in 1..NRows(X) : \A c \in 1..NCols(X) :
       Cardinality({i \in 1..Len(calls) : calls[i] = DataFrame(X.cells[r][c])}) = 1

\* Cell (r, c) of the returned table is the output for cell (r, c) of X: the
\* sequence in a nested table, its one value in a flat one.
CellwiseResult(X, res) ==
  /\ NRows(res) = NRows(X)
  /\ NCols(res) = NCols(X)
  /\ \A r \in 1..NRows(X) : \A c \in 1..NCols(X) :
       IF res.kind = "nested" THEN res.cells[r][c] = RowResult(X, r, c)
       ELSE RowResult(X, r, c).v = <<res.cells[r][c]>>

\* C3 (as stated): transform on an instance that was never fitted raises
\* NotFittedError, without a call of the wrapped transformer and without a
\* result; after a successful fit, transform of a nested table does not raise
\* it.
C3_UnfittedRaisesNotFitted ==
  /\ (r_op = "transform" /\ ~r_is_fitted) =>
       (r_out = Raise("NotFittedError") /\ r_calls = <<>>)
  /\ Transformed => r_out.kind # "NotFittedError"

\* C3 (amended): transform on an instance that was never fitted raises,
\* without a call of the wrapped transformer and without a result:
\* NotFittedError when X is a valid table, the validation error when it is
\* not; after a successful fit, transform of a nested table does not raise
\* NotFittedError.
C3_UnfittedRaises ==
  /\ (r_op = "transform" /\ ~r_is_fitted) =>
       /\ r_calls = <<>>
       /\ r_out = IF ValidateX(r_X) THEN Raise("NotFittedError") ELSE Raise("ValueError")
  /\ Transformed => r_out.kind # "NotFittedError"

\* transform of a nested table on an instance that was never fitted.
C3_Witness ==
  /\ r_op = "transform"
  /\ ~r_is_fitted
  /\ r_X.kind = "nested"
  /\ r_out = Raise("NotFittedError")

\* C4: on a fitted instance, transform of a table of R rows and C columns
\* calls fit_transform once per cell, on that cell's sequence as a one-column
\* table, and returns a table of R rows and C columns whose cell (r, c) is
\* the output for cell (r, c).  Stated for the tables whose columns have one
\* sequence length each.
C4_CellwiseTable ==
  (Transformed /\ ~IsRagged(r_X)) =>
    /\ OncePerCell(r_X, r_calls)
    /\ r_out.kind = "ok"
    /\ CellwiseResult(r_X, r_out.val)

\* C5: transform returns a flat table if and only if every transformed cell
\* has length 1; one transformed cell of another length leaves the result
\* nested.  Stated for the tables whose columns have one sequence length
\* each.
C5_FlatIffAllScalar ==
  (Transformed /\ ~IsRagged(r_X) /\ r_out.kind = "ok") =>
    ((r_out.val.kind = "tabular") = AllScalar(r_X))

\* C9: fit never calls the wrapped transformer and leaves it as it was; when
\* X passes validation it sets the fitted marker and returns the instance,
\* when X fails validation it raises the validation error and leaves the
\* marker as it was.
C9_FitFrame ==
  [][r_op' = "fit" =>
       /\ r_calls' = <<>>
       /\ wrapped_state' = wrapped_state
       /\ transformer' = transformer
       /\ IF ValidateX(r_X')
          THEN r_is_fitted' /\ r_out' = Ok(Self)
          ELSE r_is_fitted' = r_is_fitted /\ r_out' = Raise("ValueError")]_vars

\* A fit call that raised on an instance that was never fitted, after which
\* the instance is still not fitted.
C9_Witness ==
  /\ r_op = "fit"
  /\ r_out = Raise("ValueError")
  /\ ~r_is_fitted

(***************************************************************************)
(* ColumnConcatenator                                                      *)
(***************************************************************************)
\* The fit ColumnConcatenator inherits: it sets the fitted marker.
CFit(X) ==
  /\ c_op' = "fit"
  /\ c_X' = X
  /\ c_is_fitted' = TRUE
  /\ c_out' = Ok(Self)
  /\ UNCHANGED <<tvars, rvars, kvars>>

ConcatenatedFirstColumn(X) ==
  Detabularize(Tabularize([X EXCEPT !.columns = <<X.columns[1]>>]), Absent, Absent)

\* detabularize(tabularize(X)) on a table tabularize can flatten.
Concatenated(X) == Detabularize(Tabularize(X), Absent, Absent)

ConcatenateOutcomes(X) ==
  {IF t.kind # "ok" THEN t
   ELSE IF t.val.kind = "unspecified" THEN Ok(Unspecified)
   ELSE Concatenated(X) : t \in TabularizeOutcomes(X)}

CTransform(X) ==
  /\ c_op' = "transform"
  /\ c_X' = X
  /\ IF ~c_is_fitted THEN c_out' = Raise("NotFittedError")
     ELSE IF X.kind \notin {"nested", "tabular"} THEN c_out' = Raise("ValueError")
     ELSE c_out' \in ConcatenateOutcomes(X)
  /\ UNCHANGED c_is_fitted
  /\ UNCHANGED <<tvars, rvars, kvars>>

CNext ==
  \/ \E X \in NestedFrames : CFit(X)
  \/ \E X \in NestedFrames : CTransform(X)
  \/ CTransform(Other)

\* C6: on a fitted instance, transform of a nested table of R rows whose
\* columns have one sequence length each returns a nested table of R rows and
\* one column; row r's sequence holds row r's sequences of all columns end to
\* end in column order, and its length is the sum of their lengths.
C6_ConcatenatesColumns ==
  (c_op = "transform" /\ c_is_fitted /\ c_X.kind = "nested" /\ ~IsRagged(c_X)) =>
    /\ c_out.kind = "ok"
    /\ c_out.val.kind = "nested"
    /\ NRows(c_out.val) = NRows(c_X)
    /\ NCols(c_out.val) = 1
    /\ \A r \in 1..NRows(c_X) :
         /\ Len(c_out.val.cells[r]) = 1
         /\ c_out.val.cells[r][1].v = Concat([c \in 1..NCols(c_X) |-> c_X.cells[r][c].v])
         /\ Len(c_out.val.cells[r][1].v) =
              SumSeq([c \in 1..NCols(c_X) |-> Len(c_X.cells[r][c].v)])

\* A table of two rows and two columns of different sequence lengths,
\* concatenated.
C6_Witness ==
  /\ c_op = "transform"
  /\ c_is_fitted
  /\ c_X.kind = "nested"
  /\ ~IsRagged(c_X)
  /\ NRows(c_X) = 2
  /\ NCols(c_X) = 2
  /\ Len(c_X.cells[1][1].v) # Len(c_X.cells[1][2].v)
  /\ c_out.kind = "ok"

(***************************************************************************)
(* ColumnTransformer: _hstack and _validate_output                         *)
(***************************************************************************)
\* What a sub-transformer may return, by its type: ndarray1d, ndarray2d and
\* csr_matrix carry no labels, a list has no ndim attribute.
Types == {"DataFrame", "Series", "ndarray2d", "ndarray1d", "csr_matrix", "list"}

\* getattr(X, 'ndim', 0)
Ndim(typ) ==
  CASE typ \in {"DataFrame", "ndarray2d", "csr_matrix"} -> 2
    [] typ \in {"Series", "ndarray1d"} -> 1
    [] OTHER -> 0

Outputs == UNION {[1..n -> Types] : n \in 1..MaxSubs}

\* The names of the fitted sub-transformers, in the order of their outputs.
TransformerNames == <<"first", "second", "third", "fourth", "fifth", "sixth">>

Stacked(form, parts) == [kind |-> "ok", form |-> form, parts |-> parts, name |-> ""]

Failed(e, name) == [kind |-> e, form |-> "none", parts |-> <<>>, name |-> name]

NoStack == [kind |-> "none", form |-> "none", parts |-> <<>>, name |-> ""]

TypesOf(xs) == {xs[i] : i \in 1..Len(xs)}

\* scipy.sparse.hstack(Xs).tocsr(), taken to stack whatever it is given.
SparseHstack(xs) == Stacked("sparse", xs)

\* pd.concat(Xs, axis="columns") takes Series and DataFrames only.
PdConcat(xs) ==
  IF TypesOf(xs) \subseteq {"DataFrame", "Series"} THEN Stacked("frame", xs)
  ELSE Failed("TypeError", "")

\* np.hstack(Xs) needs arrays of one number of dimensions (a Series has one,
\* the other outputs that pass _validate_output have two).
NpHstack(xs) ==
  IF \A i, j \in 1..Len(xs) : Ndim(xs[i]) = Ndim(xs[j]) THEN Stacked("array", xs)
  ELSE Failed("ValueError", "")

Hstack(xs) ==
  IF sparse_output_ THEN SparseHstack(xs)
  ELSE IF preserve_dataframe /\ ("Series" \in TypesOf(xs) \/ "DataFrame" \in TypesOf(xs))
  THEN PdConcat(xs)
  ELSE NpHstack(xs)

Is2DNoSeries(typ) == Ndim(typ) = 2

\* The test of _validate_output on one output.
Is2DOrSeries(typ) == Ndim(typ) = 2 \/ typ = "Series"

RECURSIVE ValidateFrom(_, _)
ValidateFrom(result, i) ==
  IF i > Len(result) THEN Stacked("none", <<>>)
  ELSE IF ~Is2DOrSeries(result[i]) THEN Failed("ValueError", TransformerNames[i])
  ELSE ValidateFrom(result, i + 1)

\* _validate_output: the loop over zip(result, names).
ValidateOutput(result) == ValidateFrom(result, 1)

\* sklearn calls _validate_output on the outputs and then _hstack on them.
KValidateOutput ==
  /\ k_op = "none"
  /\ k_op' = "_validate_output"
  /\ k_out' = ValidateOutput(Xs)
  /\ UNCHANGED <<preserve_dataframe, sparse_output_, Xs>>
  /\ UNCHANGED <<tvars, rvars, cvars>>

KHstack ==
  /\ k_op = "_validate_output"
  /\ k_out.kind = "ok"
  /\ k_op' = "_hstack"
  /\ k_out' = Hstack(Xs)
  /\ UNCHANGED <<preserve_dataframe, sparse_output_, Xs>>
  /\ UNCHANGED <<tvars, rvars, cvars>>

KNext == KValidateOutput \/ KHstack

Labeled(xs) == "Series" \in TypesOf(xs) \/ "DataFrame" \in TypesOf(xs)

\* C7: _hstack chooses the form of the combined output by strict priority:
\* sparse when the output is flagged sparse, whatever preserve_dataframe is;
\* else a labeled table holding every output's columns when
\* preserve_dataframe is set and at least one output is a DataFrame or a
\* Series; else a plain array.
C7_HstackPriority ==
  k_op = "_hstack" =>
    k_out = IF sparse_output_ THEN Stacked("sparse", Xs)
            ELSE IF preserve_dataframe /\ Labeled(Xs) THEN Stacked("frame", Xs)
            ELSE Stacked("array", Xs)

AllValid(xs) == \A i \in 1..Len(xs) : Ndim(xs[i]) = 2 \/ xs[i] = "Series"

FirstInvalid(xs) ==
  CHOOSE i \in 1..Len(xs) :
    /\ ~(Ndim(xs[i]) = 2 \/ xs[i] = "Series")
    /\ \A j \in 1..(i - 1) : Ndim(xs[j]) = 2 \/ xs[j] = "Series"

\* C8: _validate_output succeeds if and only if every output is
\* two-dimensional or a Series; otherwise it raises an error that names the
\* first sub-transformer, in order, whose output is neither.
C8_ValidateOutput ==
  k_op = "_validate_output" =>
    IF AllValid(Xs) THEN k_out.kind = "ok"
    ELSE k_out = Failed("ValueError", TransformerNames[FirstInvalid(Xs)])

\* Three outputs: a Series, which passes, then two one-dimensional arrays;
\* the error names the second sub-transformer.
C8_Witness ==
  /\ k_op = "_validate_output"
  /\ Xs = <<"Series", "ndarray1d", "ndarray1d">>
  /\ k_out = Failed("ValueError", "second")

(***************************************************************************)
(* Specifications: one per object, every object as constructed; the other  *)
(* objects stay as they are.                                               *)
(***************************************************************************)
InitTabularizer ==
  /\ check_input \in BOOLEAN
  /\ t_columns = Absent
  /\ t_index = Absent
  /\ t_time_index = Absent
  /\ t_out = NoCall
  /\ t_op = "none"
  /\ t_passed = Absent
  /\ t_flow = Absent
  /\ t_hist = [done |-> FALSE, failed |-> FALSE, passed |-> 0]
  /\ transformer = "identity"
  /\ wrapped_state = Absent
  /\ r_is_fitted = FALSE
  /\ r_out = NoCall
  /\ r_op = "none"
  /\ r_X = Other
  /\ r_calls = <<>>
  /\ c_is_fitted = FALSE
  /\ c_out = NoCall
  /\ c_op = "none"
  /\ c_X = Other
  /\ preserve_dataframe = TRUE
  /\ sparse_output_ = FALSE
  /\ Xs = <<"DataFrame">>
  /\ k_out = NoStack
  /\ k_op = "none"

InitRowwise ==
  /\ check_input = TRUE
  /\ t_columns = Absent
  /\ t_index = Absent
  /\ t_time_index = Absent
  /\ t_out = NoCall
  /\ t_op = "none"
  /\ t_passed = Absent
  /\ t_flow = Absent
  /\ t_hist = [done |-> FALSE, failed |-> FALSE, passed |-> 0]
  /\ transformer \in Transformers
  /\ wrapped_state = Absent
  /\ r_is_fitted = FALSE
  /\ r_out = NoCall
  /\ r_op = "none"
  /\ r_X = Other
  /\ r_calls = <<>>
  /\ c_is_fitted = FALSE
  /\ c_out = NoCall
  /\ c_op = "none"
  /\ c_X = Other
  /\ preserve_dataframe = TRUE
  /\ sparse_output_ = FALSE
  /\ Xs = <<"DataFrame">>
  /\ k_out = NoStack
  /\ k_op = "none"

InitConcatenator ==
  /\ check_input = TRUE
  /\ t_columns = Absent
  /\ t_index = Absent
  /\ t_time_index = Absent
  /\ t_out = NoCall
  /\ t_op = "none"
  /\ t_passed = Absent
  /\ t_flow = Absent
  /\ t_hist = [done |-> FALSE, failed |-> FALSE, passed |-> 0]
  /\ transformer = "identity"
  /\ wrapped_state = Absent
  /\ r_is_fitted = FALSE
  /\ r_out = NoCall
  /\ r_op = "none"
  /\ r_X = Other
  /\ r_calls = <<>>
  /\ c_is_fitted = FALSE
  /\ c_out = NoCall
  /\ c_op = "none"
  /\ c_X = Other
  /\ preserve_dataframe = TRUE
  /\ sparse_output_ = FALSE
  /\ Xs = <<"DataFrame">>
  /\ k_out = NoStack
  /\ k_op = "none"

InitColumnTransformer ==
  /\ check_input = TRUE
  /\ t_columns = Absent
  /\ t_index = Absent
  /\ t_time_index = Absent
  /\ t_out = NoCall
  /\ t_op = "none"
  /\ t_passed = Absent
  /\ t_flow = Absent
  /\ t_hist = [done |-> FALSE, failed |-> FALSE, passed |-> 0]
  /\ transformer = "identity"
  /\ wrapped_state = Absent
  /\ r_is_fitted = FALSE
  /\ r_out = NoCall
  /\ r_op = "none"
  /\ r_X = Other
  /\ r_calls = <<>>
  /\ c_is_fitted = FALSE
  /\ c_out = NoCall
  /\ c_op = "none"
  /\ c_X = Other
  /\ preserve_dataframe \in BOOLEAN
  /\ sparse_output_ \in BOOLEAN
  /\ Xs \in Outputs
  /\ k_out = NoStack
  /\ k_op = "none"

Init ==
  /\ check_input \in BOOLEAN
  /\ t_columns = Absent
  /\ t_index = Absent
  /\ t_time_index = Absent
  /\ t_out = NoCall
  /\ t_op = "none"
  /\ t_passed = Absent
  /\ t_flow = Absent
  /\ t_hist = [done |-> FALSE, failed |-> FALSE, passed |-> 0]
  /\ transformer \in Transformers
  /\ wrapped_state = Absent
  /\ r_is_fitted = FALSE
  /\ r_out = NoCall
  /\ r_op = "none"
  /\ r_X = Other
  /\ r_calls = <<>>
  /\ c_is_fitted = FALSE
  /\ c_out = NoCall
  /\ c_op = "none"
  /\ c_X = Other
  /\ preserve_dataframe \in BOOLEAN
  /\ sparse_output_ \in BOOLEAN
  /\ Xs \in Outputs
  /\ k_out = NoStack
  /\ k_op = "none"

Next == TNext \/ RNext \/ CNext \/ KNext

SpecTabularizer == InitTabularizer /\ [][TNext]_vars

SpecRowwise == InitRowwise /\ [][RNext]_vars

SpecConcatenator == InitConcatenator /\ [][CNext]_vars

SpecColumnTransformer == InitColumnTransformer /\ [][KNext]_vars

Spec == Init /\ [][Next]_vars

====
